---- MODULE Spec2Model ----
(***************************************************************************)
(* Model of uci-rest (src/main.py): the /bestmove handler and the engine   *)
(* session get_best_move, which spawns a UCI engine, drives the handshake  *)
(* over its stdin/stdout, drains its stderr in a concurrent task and       *)
(* returns the best move together with the transcript (log_lines).         *)
(*                                                                         *)
(* Text is modelled as sequences of one-character strings, so that strip,  *)
(* split, startswith, decode and join are computed as the code computes    *)
(* them.  A line in a pipe is the line without its terminating newline.    *)
(***************************************************************************)
EXTENDS Naturals, Sequences, FiniteSets, TLC

\* ------------------------------------------------------------------ bounds
\* Largest number of lines the engine writes to its output stream.
MaxOut == 3
\* Largest number of lines the engine writes to its error stream.
MaxErr == 2
\* Longest best-move token handed to parse_uci_move on its own.
MaxMoveLen == 6

\* ------------------------------------------------------------ text literals
S_uci == <<"u", "c", "i">>
S_isready == <<"i", "s", "r", "e", "a", "d", "y">>
S_position_fen == <<"p", "o", "s", "i", "t", "i", "o", "n", " ", "f", "e", "n", " ">>
S_go_depth == <<"g", "o", " ", "d", "e", "p", "t", "h", " ">>
S_quit == <<"q", "u", "i", "t">>
S_uciok == <<"u", "c", "i", "o", "k">>
S_readyok == <<"r", "e", "a", "d", "y", "o", "k">>
S_bestmove == <<"b", "e", "s", "t", "m", "o", "v", "e">>
SentTag == <<">", ">", ">", " ">>
RecvTag == <<"<", "<", "<", " ">>
DiagTag == <<"!", "!", "!", " ">>
S_Exception == <<"E", "x", "c", "e", "p", "t", "i", "o", "n", ":", " ">>
MsgNoMove == <<"E", "n", "g", "i", "n", "e", " ", "d", "i", "d", " ", "n", "o", "t", " ", "r", "e", "t", "u", "r", "n", " ", "a", " ", "m", "o", "v", "e", ".">>
MsgInvalidMove == <<"I", "n", "v", "a", "l", "i", "d", " ", "m", "o", "v", "e", " ", "s", "t", "r", "i", "n", "g", ":", " ">>
MsgEngineNotFound == <<"E", "n", "g", "i", "n", "e", " ", "n", "o", "t", " ", "f", "o", "u", "n", "d">>
\* str(e) of the exceptions the Python runtime raises inside the session.
MsgConnectionLost == <<"C", "o", "n", "n", "e", "c", "t", "i", "o", "n", " ", "l", "o", "s", "t">>
MsgIndexError == <<"l", "i", "s", "t", " ", "i", "n", "d", "e", "x", " ", "o", "u", "t", " ", "o", "f", " ", "r", "a", "n", "g", "e">>
MsgSpawn == <<"P", "e", "r", "m", "i", "s", "s", "i", "o", "n", " ", "d", "e", "n", "i", "e", "d">>

NL == "\n"
\* A byte that is not valid UTF-8; decode(errors='ignore') drops it.
BadByte == "xFF"
\* The characters str.strip() removes.
Whitespace == {" ", "\t", "\r", "\n"}

\* ------------------------------------------------------- engine behaviours
\* The lines an engine may write to its output stream (raw, before decoding).
LineUciok == <<"u", "c", "i", "o", "k">>
LineReadyokCR == <<"r", "e", "a", "d", "y", "o", "k", "\r">>
LineBestmove == <<"b", "e", "s", "t", "m", "o", "v", "e", " ", "e", "7", "e", "8", "q", " ", "p", "o", "n", "d", "e", "r", " ", "d", "7">>
LineBestmove2Sp == <<"b", "e", "s", "t", "m", "o", "v", "e", " ", " ", "e", "2", "e", "4">>
LineBestmoveBare == <<"b", "e", "s", "t", "m", "o", "v", "e">>
LineEmpty == <<>>
OutLines == {LineUciok, LineReadyokCR, LineBestmove, LineBestmove2Sp,
             LineBestmoveBare, LineEmpty}
\* The lines an engine may write to its error stream.
ErrWarn == <<"w", "a", "r", "n", "\r">>
ErrNote == <<" ", "n", "xFF", "1">>
\* The drain treats every line alike, so the k-th line an engine writes to its
\* error stream is fixed: two different lines, in turn.
ErrLine(k) == IF k % 2 = 1 THEN ErrWarn ELSE ErrNote

\* ------------------------------------------------------------ the request
Fen == <<"8", "/", "8", " ", "w">>
Depths == {15}
EngineIds == {"stockfish", "gnuchess"}

\* ----------------------------------------------------------- pure functions
RECURSIVE LStrip(_)
LStrip(s) == IF s # <<>> /\ Head(s) \in Whitespace THEN LStrip(Tail(s)) ELSE s

RECURSIVE RStrip(_)
RStrip(s) ==
  IF s # <<>> /\ s[Len(s)] \in Whitespace THEN RStrip(SubSeq(s, 1, Len(s) - 1)) ELSE s

\* str.strip()
Strip(s) == RStrip(LStrip(s))

\* bytes.decode('utf-8', errors='ignore')
Decode(raw) == SelectSeq(raw, LAMBDA b : b # BadByte)

\* f"{cmd}\n".encode()
Encode(cmd) == Append(cmd, NL)

\* str.startswith
StartsWith(s, p) == Len(s) >= Len(p) /\ SubSeq(s, 1, Len(p)) = p

\* str.split(sep) for a one-character separator: every piece, empty ones included.
RECURSIVE SplitAcc(_, _, _)
SplitAcc(s, sep, cur) ==
  IF s = <<>> THEN <<cur>>
  ELSE IF Head(s) = sep THEN <<cur>> \o SplitAcc(Tail(s), sep, <<>>)
  ELSE SplitAcc(Tail(s), sep, Append(cur, Head(s)))

Split(s, sep) == SplitAcc(s, sep, <<>>)

\* sep.join(parts)
RECURSIVE Join(_, _)
Join(parts, sep) ==
  IF parts = <<>> THEN <<>>
  ELSE IF Len(parts) = 1 THEN parts[1]
  ELSE parts[1] \o <<sep>> \o Join(Tail(parts), sep)

\* str(n) for a natural number
Digit(d) == CASE d = 0 -> "0" [] d = 1 -> "1" [] d = 2 -> "2" [] d = 3 -> "3"
              [] d = 4 -> "4" [] d = 5 -> "5" [] d = 6 -> "6" [] d = 7 -> "7"
              [] d = 8 -> "8" [] d = 9 -> "9"

RECURSIVE IntToStr(_)
IntToStr(n) == IF n < 10 THEN <<Digit(n)>> ELSE Append(IntToStr(n \div 10), Digit(n % 10))

\* Optional values: None is the empty sequence, a value v is <<v>>.
None == <<>>
Some(v) == <<v>>

\* Python truthiness of an Optional[str]
\* A test for None only.
TruthyNotNone(opt) == opt # None

Truthy(opt) == opt # None /\ opt[1] # <<>>

\* Python truthiness of the Optional path the engine table yields
TruthyPath(opt) == opt # None /\ opt[1] # ""

\* parse_uci_move: <<"ok", from, to, promotion>> or <<"ValueError", message>>
parse_uci_move(move) ==
  IF Len(move) < 4 THEN <<"ValueError", MsgInvalidMove \o move>>
  ELSE <<"ok", SubSeq(move, 1, 2), SubSeq(move, 3, 4),
         IF Len(move) = 5 THEN Some(move[5]) ELSE None>>

\* The static engine table.
EngineTable ==
  ("stockfish" :> "engines/stockfish") @@ ("0.3.0" :> "engines/engine-0.3.0") @@
  ("0.2.1" :> "engines/engine-0.2.1") @@ ("0.2.0" :> "engines/engine-0.2.0")

\* dict.get(key): the value, or None
DictGet(d, key) == IF key \in DOMAIN d THEN Some(d[key]) ELSE None

\* ------------------------------------------------------------------- state
VARIABLES
  request,          \* the MoveRequest of the call
  isfile,           \* os.path.isfile(engine_path), as the file system answers
  can_exec,         \* whether the operating system can start the binary
  ENGINE_BINARIES,  \* the module-level engine table
  pc,               \* position of the handler / of get_best_move
  engine_path,      \* Optional path looked up by the handler
  proc,             \* the subprocess: "none", "running", "exited", "reaped"
  stdin_w,          \* byte lines written to the engine's stdin
  outbuf,           \* lines in the stdout pipe, not yet read
  errbuf,           \* lines in the stderr pipe, not yet read
  nOut,             \* lines the engine has written to stdout
  nErr,             \* lines the engine has written to stderr
  log_lines,        \* the transcript
  line,             \* the local variable line of get_best_move
  best_move,        \* the local variable best_move (Optional)
  exc,              \* str(e) of the exception caught at line 103
  stderr_task,      \* the drain task: "none", "running", "done"
  kills,            \* calls of process.kill()
  spawns,           \* subprocesses created
  outcome,          \* how get_best_move ended: "none", "return", "RuntimeError", "OSError"
  err_text,         \* str(e) of the exception get_best_move raised
  response          \* the HTTP response of the handler (Optional)

vars == <<request, isfile, can_exec, ENGINE_BINARIES, pc, engine_path, proc, stdin_w,
          outbuf, errbuf, nOut, nErr, log_lines, line, best_move, exc, stderr_task,
          kills, spawns, outcome, err_text, response>>

envVars == <<request, isfile, can_exec, ENGINE_BINARIES>>
pipeVars == <<outbuf, errbuf, nOut, nErr>>

Init ==
  /\ request \in [engine : EngineIds, position : {Fen}, depth : Depths]
  /\ isfile \in BOOLEAN
  /\ can_exec \in BOOLEAN
  /\ ENGINE_BINARIES = EngineTable
  /\ pc = "bestmove"
  /\ engine_path = None
  /\ proc = "none"
  /\ stdin_w = <<>>
  /\ outbuf = <<>>
  /\ errbuf = <<>>
  /\ nOut = 0
  /\ nErr = 0
  /\ log_lines = <<>>
  /\ line = <<>>
  /\ best_move = None
  /\ exc = <<>>
  /\ stderr_task = "none"
  /\ kills = 0
  /\ spawns = 0
  /\ outcome = "none"
  /\ err_text = <<>>
  /\ response = None

\* ------------------------------------------------------------- the handler
\* Lookup without the os.path.isfile test.
LookupNoFileCheck ==
  /\ pc = "bestmove"
  /\ engine_path' = DictGet(ENGINE_BINARIES, request.engine)
  /\ IF ~TruthyPath(engine_path')
       THEN /\ response' = Some([status |-> 404, detail |-> MsgEngineNotFound])
            /\ pc' = "responded"
       ELSE /\ response' = response
            /\ pc' = "spawn"
  /\ UNCHANGED <<envVars, proc, stdin_w, pipeVars, log_lines, line, best_move, exc,
                 stderr_task, kills, spawns, outcome, err_text>>

\* bestmove, lines 115-117: look the engine up, 404 unless it is a file.
Lookup ==
  /\ pc = "bestmove"
  /\ engine_path' = DictGet(ENGINE_BINARIES, request.engine)
  /\ IF ~TruthyPath(engine_path') \/ ~isfile
       THEN /\ response' = Some([status |-> 404, detail |-> MsgEngineNotFound])
            /\ pc' = "responded"
       ELSE /\ response' = response
            /\ pc' = "spawn"
  /\ UNCHANGED <<envVars, proc, stdin_w, pipeVars, log_lines, line, best_move, exc,
                 stderr_task, kills, spawns, outcome, err_text>>

\* bestmove, lines 119-133: map the session's outcome to the response.
RespondOf(how, move, logs, text) ==
  IF how = "return"
    THEN LET parsed == parse_uci_move(move[1])
         IN  IF parsed[1] = "ok"
               THEN [status |-> 200, best_move |-> move[1], from |-> parsed[2],
                     to |-> parsed[3], promotion |-> parsed[4], log |-> logs]
               ELSE [status |-> 500, detail |-> parsed[2]]
    ELSE [status |-> 500, detail |-> text]

Respond ==
  /\ pc = "returned"
  /\ response' = Some(RespondOf(outcome, best_move, log_lines, err_text))
  /\ pc' = "responded"
  /\ UNCHANGED <<envVars, engine_path, proc, stdin_w, pipeVars, log_lines, line,
                 best_move, exc, stderr_task, kills, spawns, outcome, err_text>>

\* -------------------------------------------------------- get_best_move
\* lines 40-69: log_lines = [], create the subprocess, start the drain task.
\* A failure of create_subprocess_exec is raised before the try block.
Spawn ==
  /\ pc = "spawn"
  /\ IF can_exec
       THEN /\ proc' = "running"
            /\ spawns' = spawns + 1
            /\ stderr_task' = "running"
            /\ pc' = "send_uci"
            /\ UNCHANGED <<outcome, err_text>>
       ELSE /\ outcome' = "OSError"
            /\ err_text' = MsgSpawn
            /\ pc' = "returned"
            /\ UNCHANGED <<proc, spawns, stderr_task>>
  /\ log_lines' = <<>>
  /\ UNCHANGED <<envVars, engine_path, stdin_w, pipeVars, line, best_move, exc, kills,
                 response>>

\* send that logs the command only after its write went through.
SendWriteThenLog(cmd, next) ==
  IF proc = "running"
    THEN /\ stdin_w' = Append(stdin_w, Encode(cmd))
         /\ log_lines' = Append(log_lines, SentTag \o cmd)
         /\ pc' = next
         /\ exc' = exc
    ELSE /\ stdin_w' = stdin_w
         /\ log_lines' = log_lines
         /\ pc' = "except_kill"
         /\ exc' = MsgConnectionLost

\* send, lines 49-52: log the command, then write it; the write (its drain)
\* fails once the engine has closed its end of the pipe.
SendLogged(cmd, next) ==
  /\ log_lines' = Append(log_lines, SentTag \o cmd)
  /\ IF proc = "running"
       THEN /\ stdin_w' = Append(stdin_w, Encode(cmd))
            /\ pc' = next
            /\ exc' = exc
       ELSE /\ stdin_w' = stdin_w
            /\ pc' = "except_kill"
            /\ exc' = MsgConnectionLost

send(cmd, next) ==
  /\ SendLogged(cmd, next)
  /\ UNCHANGED <<envVars, engine_path, proc, pipeVars, line, best_move, stderr_task,
                 kills, spawns, outcome, err_text, response>>

\* readline, lines 54-59: the next line of stdout, or "" at end of stream.
ReadlineReady == outbuf # <<>> \/ proc # "running"

ReadlineResult == IF outbuf # <<>> THEN Strip(Decode(Head(outbuf))) ELSE <<>>

\* A readline that logs every non-empty line twice.
LogReceivedTwice(log, l) ==
  IF l # <<>> THEN Append(Append(log, RecvTag \o l), RecvTag \o l) ELSE log

LogReceived(log, l) == IF l # <<>> THEN Append(log, RecvTag \o l) ELSE log

readline ==
  /\ ReadlineReady
  /\ line' = ReadlineResult
  /\ outbuf' = IF outbuf # <<>> THEN Tail(outbuf) ELSE outbuf
  /\ log_lines' = LogReceived(log_lines, line')

\* line 72
SendUci == pc = "send_uci" /\ send(S_uci, "await_uciok")

\* A test that takes any non-empty line for uciok.
IsUciokAny(l) == l # <<>>

\* lines 73-76
IsUciok(l) == l = S_uciok

AwaitUciok ==
  /\ pc = "await_uciok"
  /\ readline
  /\ pc' = IF IsUciok(line') THEN "send_isready" ELSE pc
  /\ UNCHANGED <<envVars, engine_path, proc, stdin_w, errbuf, nOut, nErr, best_move, exc,
                 stderr_task, kills, spawns, outcome, err_text, response>>

\* line 78
SendIsready == pc = "send_isready" /\ send(S_isready, "await_readyok")

\* A test that takes uciok for readyok as well.
IsReadyokAnyOk(l) == l \in {S_readyok, S_uciok}

\* lines 79-82
IsReadyok(l) == l = S_readyok

AwaitReadyok ==
  /\ pc = "await_readyok"
  /\ readline
  /\ pc' = IF IsReadyok(line') THEN "send_position" ELSE pc
  /\ UNCHANGED <<envVars, engine_path, proc, stdin_w, errbuf, nOut, nErr, best_move, exc,
                 stderr_task, kills, spawns, outcome, err_text, response>>

\* position sent without the request's FEN.
SendPositionNoFen == pc = "send_position" /\ send(S_position_fen, "send_go")

\* line 84
SendPosition ==
  pc = "send_position" /\ send(S_position_fen \o request.position, "send_go")

\* line 85
SendGo ==
  pc = "send_go" /\ send(S_go_depth \o IntToStr(request.depth), "await_bestmove")

\* lines 90-91: line.split(" ")[1], or IndexError
ExtractMove(l) ==
  LET parts == Split(l, " ")
  IN  IF Len(parts) >= 2 THEN <<"ok", parts[2]>> ELSE <<"IndexError", MsgIndexError>>

\* lines 87-92
AwaitBestmove ==
  /\ pc = "await_bestmove"
  /\ readline
  /\ IF StartsWith(line', S_bestmove)
       THEN LET got == ExtractMove(line')
            IN  IF got[1] = "ok"
                  THEN best_move' = Some(got[2]) /\ pc' = "send_quit" /\ exc' = exc
                  ELSE best_move' = None /\ pc' = "except_kill" /\ exc' = got[2]
       ELSE best_move' = None /\ pc' = pc /\ exc' = exc
  /\ UNCHANGED <<envVars, engine_path, proc, stdin_w, errbuf, nOut, nErr, stderr_task,
                 kills, spawns, outcome, err_text, response>>

\* line 94
SendQuit == pc = "send_quit" /\ send(S_quit, "wait_exit")

\* A wait that does not reap: it returns at once whatever the process does.
ProcessWaitNoReap == proc' = proc

\* process.wait(): returns once the process has exited, and reaps it.
ProcessWait == proc \in {"exited", "reaped"} /\ proc' = "reaped"

\* A wait for the exit that also issues the kill.
WaitExitKills ==
  /\ pc = "wait_exit"
  /\ ProcessWait
  /\ kills' = kills + 1
  /\ pc' = "join_stderr"
  /\ UNCHANGED <<envVars, engine_path, stdin_w, pipeVars, log_lines, line, best_move,
                 exc, stderr_task, spawns, outcome, err_text, response>>

\* line 95
WaitExit ==
  /\ pc = "wait_exit"
  /\ ProcessWait
  /\ pc' = "join_stderr"
  /\ UNCHANGED <<envVars, engine_path, stdin_w, pipeVars, log_lines, line, best_move,
                 exc, stderr_task, kills, spawns, outcome, err_text, response>>

\* A success path that does not wait for the drain task.
JoinStderrSkipped ==
  /\ pc = "join_stderr"
  /\ pc' = "check_move"
  /\ UNCHANGED <<envVars, engine_path, proc, stdin_w, pipeVars, log_lines, line,
                 best_move, exc, stderr_task, kills, spawns, outcome, err_text,
                 response>>

\* line 96
JoinStderr ==
  /\ pc = "join_stderr"
  /\ stderr_task = "done"
  /\ pc' = "check_move"
  /\ UNCHANGED <<envVars, engine_path, proc, stdin_w, pipeVars, log_lines, line,
                 best_move, exc, stderr_task, kills, spawns, outcome, err_text,
                 response>>

\* lines 98-101: return the move and the transcript, or raise inside the try.
ReturnOrRaise ==
  /\ pc = "check_move"
  /\ IF Truthy(best_move)
       THEN outcome' = "return" /\ pc' = "returned" /\ exc' = exc
       ELSE outcome' = outcome /\ pc' = "except_kill" /\ exc' = MsgNoMove
  /\ UNCHANGED <<envVars, engine_path, proc, stdin_w, pipeVars, log_lines, line,
                 best_move, stderr_task, kills, spawns, err_text, response>>

\* A failure branch that first logs a graceful quit, then kills.
ExceptKillGraceful ==
  /\ pc = "except_kill"
  /\ log_lines' = Append(log_lines, SentTag \o S_quit)
  /\ kills' = kills + 1
  /\ proc' = IF proc = "running" THEN "exited" ELSE proc
  /\ pc' = "except_wait"
  /\ UNCHANGED <<envVars, engine_path, stdin_w, pipeVars, line, best_move, exc,
                 stderr_task, spawns, outcome, err_text, response>>

\* process.kill() without the inner try: its error on a dead process leaves
\* get_best_move.
ExceptKillUnguarded ==
  /\ pc = "except_kill"
  /\ kills' = kills + 1
  /\ IF proc = "running"
       THEN proc' = "exited" /\ pc' = "except_wait" /\ outcome' = outcome
       ELSE proc' = proc /\ pc' = "returned" /\ outcome' = "OSError"
  /\ UNCHANGED <<envVars, engine_path, stdin_w, pipeVars, log_lines, line, best_move,
                 exc, stderr_task, spawns, err_text, response>>

\* lines 104-107: process.kill(); its error on a dead process is swallowed.
ExceptKill ==
  /\ pc = "except_kill"
  /\ kills' = kills + 1
  /\ proc' = IF proc = "running" THEN "exited" ELSE proc
  /\ pc' = "except_wait"
  /\ UNCHANGED <<envVars, engine_path, stdin_w, pipeVars, log_lines, line, best_move,
                 exc, stderr_task, spawns, outcome, err_text, response>>

\* line 108
ExceptWait ==
  /\ pc = "except_wait"
  /\ ProcessWait
  /\ pc' = "except_raise"
  /\ UNCHANGED <<envVars, engine_path, stdin_w, pipeVars, log_lines, line, best_move,
                 exc, stderr_task, kills, spawns, outcome, err_text, response>>

\* lines 109-110: log the exception, raise RuntimeError("\n".join(log_lines)).
ExceptRaise ==
  /\ pc = "except_raise"
  /\ log_lines' = Append(log_lines, DiagTag \o S_Exception \o exc)
  /\ err_text' = Join(log_lines', NL)
  /\ outcome' = "RuntimeError"
  /\ pc' = "returned"
  /\ UNCHANGED <<envVars, engine_path, proc, stdin_w, pipeVars, line, best_move, exc,
                 stderr_task, kills, spawns, response>>

\* read_stderr, lines 61-67: one iteration of the drain task.
DiagnosticOf(raw) == DiagTag \o Strip(Decode(raw))

\* A drain that puts its entry at the front of the transcript.
ReadStderrPrepend ==
  /\ stderr_task = "running"
  /\ pc # "send_uci"
  /\ errbuf # <<>> \/ proc # "running"
  /\ IF errbuf # <<>>
       THEN /\ log_lines' = <<DiagnosticOf(Head(errbuf))>> \o log_lines
            /\ errbuf' = Tail(errbuf)
            /\ stderr_task' = stderr_task
       ELSE /\ stderr_task' = "done"
            /\ UNCHANGED <<log_lines, errbuf>>
  /\ UNCHANGED <<envVars, pc, engine_path, proc, stdin_w, outbuf, nOut, nErr, line,
                 best_move, exc, kills, spawns, outcome, err_text, response>>

\* The task created at line 69 first runs when the main sequence first
\* suspends, which is after the first send has logged its command (line 50).
ReadStderr ==
  /\ stderr_task = "running"
  /\ pc # "send_uci"
  /\ errbuf # <<>> \/ proc # "running"
  /\ IF errbuf # <<>>
       THEN /\ log_lines' = Append(log_lines, DiagnosticOf(Head(errbuf)))
            /\ errbuf' = Tail(errbuf)
            /\ stderr_task' = stderr_task
       ELSE /\ stderr_task' = "done"
            /\ UNCHANGED <<log_lines, errbuf>>
  /\ UNCHANGED <<envVars, pc, engine_path, proc, stdin_w, outbuf, nOut, nErr, line,
                 best_move, exc, kills, spawns, outcome, err_text, response>>

\* --------------------------------------------------------------- the engine
EngineWritesOut ==
  /\ proc = "running"
  /\ nOut < MaxOut
  /\ \E l \in OutLines : outbuf' = Append(outbuf, l)
  /\ nOut' = nOut + 1
  /\ UNCHANGED <<envVars, pc, engine_path, proc, stdin_w, errbuf, nErr, log_lines, line,
                 best_move, exc, stderr_task, kills, spawns, outcome, err_text, response>>

EngineWritesErr ==
  /\ proc = "running"
  /\ nErr < MaxErr
  /\ nErr' = nErr + 1
  /\ errbuf' = Append(errbuf, ErrLine(nErr'))
  /\ UNCHANGED <<envVars, pc, engine_path, proc, stdin_w, outbuf, nOut, log_lines, line,
                 best_move, exc, stderr_task, kills, spawns, outcome, err_text, response>>

\* The engine exits on its own: its ends of the three pipes close.
EngineExits ==
  /\ proc = "running"
  /\ proc' = "exited"
  /\ UNCHANGED <<envVars, pc, engine_path, stdin_w, pipeVars, log_lines, line, best_move,
                 exc, stderr_task, kills, spawns, outcome, err_text, response>>

\* ------------------------------------------------------------ specification
MainStep ==
  \/ Lookup \/ Spawn \/ SendUci \/ AwaitUciok \/ SendIsready \/ AwaitReadyok
  \/ SendPosition \/ SendGo \/ AwaitBestmove \/ SendQuit \/ WaitExit \/ JoinStderr
  \/ ReturnOrRaise \/ ExceptKill \/ ExceptWait \/ ExceptRaise \/ Respond

Next ==
  \/ Lookup
  \/ Spawn
  \/ SendUci
  \/ AwaitUciok
  \/ SendIsready
  \/ AwaitReadyok
  \/ SendPosition
  \/ SendGo
  \/ AwaitBestmove
  \/ SendQuit
  \/ WaitExit
  \/ JoinStderr
  \/ ReturnOrRaise
  \/ ExceptKill
  \/ ExceptWait
  \/ ExceptRaise
  \/ Respond
  \/ ReadStderr
  \/ EngineWritesOut
  \/ EngineWritesErr
  \/ EngineExits

Spec == Init /\ [][Next]_vars

\* The event loop runs every task that is ready; the engine owes nothing.
FairSpec == Spec /\ WF_vars(MainStep) /\ WF_vars(ReadStderr)

\* ------------------------------------------------- parse_uci_move on its own
\* The characters of the tokens handed to parse_uci_move.
MoveChars == {"e", "7", "q"}

MoveTokens == UNION {[1..n -> MoveChars] : n \in 1..MaxMoveLen}

\* get_best_move has just returned some token; the handler (line 122) parses it.
ParseInit ==
  /\ request \in [engine : {"stockfish"}, position : {Fen}, depth : Depths]
  /\ isfile = TRUE
  /\ can_exec = TRUE
  /\ ENGINE_BINARIES = EngineTable
  /\ pc = "returned"
  /\ engine_path = DictGet(EngineTable, "stockfish")
  /\ proc = "reaped"
  /\ stdin_w = <<>>
  /\ outbuf = <<>>
  /\ errbuf = <<>>
  /\ nOut = 0
  /\ nErr = 0
  /\ log_lines = <<>>
  /\ line = <<>>
  /\ best_move \in {Some(t) : t \in MoveTokens}
  /\ exc = <<>>
  /\ stderr_task = "done"
  /\ kills = 0
  /\ spawns = 1
  /\ outcome = "return"
  /\ err_text = <<>>
  /\ response = None

ParseNext == Respond

ParseSpec == ParseInit /\ [][ParseNext]_vars

\* =================================================================== claims
\* get_best_move has returned or raised.
GbmFinished == pc \in {"returned", "responded"} /\ outcome # "none"

\* The commands of the Sent entries of a transcript, in transcript order.
SentCommands(log) ==
  LET sent == SelectSeq(log, LAMBDA e : StartsWith(e, SentTag))
  IN  [i \in 1..Len(sent) |-> SubSeq(sent[i], Len(SentTag) + 1, Len(sent[i]))]

\* The five commands of a complete session, in order.
Handshake ==
  <<S_uci, S_isready, S_position_fen \o request.position,
    S_go_depth \o IntToStr(request.depth), S_quit>>

\* The lines of a text: what lies between its newlines (text.split("\n")).
LinesOf(text) ==
  LET cuts == <<0>> \o SelectSeq([i \in 1..Len(text) |-> i], LAMBDA i : text[i] = NL)
                    \o <<Len(text) + 1>>
  IN  [k \in 1..(Len(cuts) - 1) |-> SubSeq(text, cuts[k] + 1, cuts[k + 1] - 1)]

\* The transcript the caller holds: the returned list, or the lines of the
\* error's text.
CallerTranscript ==
  IF outcome = "return" THEN log_lines
  ELSE IF outcome = "RuntimeError" THEN LinesOf(err_text)
  ELSE <<>>

\* str.split(): the maximal runs of non-whitespace characters.
RECURSIVE WsTokensAcc(_, _)
WsTokensAcc(s, cur) ==
  IF s = <<>> THEN (IF cur = <<>> THEN <<>> ELSE <<cur>>)
  ELSE IF Head(s) \in Whitespace
         THEN (IF cur = <<>> THEN <<>> ELSE <<cur>>) \o WsTokensAcc(Tail(s), <<>>)
         ELSE WsTokensAcc(Tail(s), Append(cur, Head(s)))

WsTokens(s) == WsTokensAcc(s, <<>>)

\* A terminator is awaited: the session sits in one of its three read loops.
AwaitingTerminator == pc \in {"await_uciok", "await_readyok", "await_bestmove"}

\* "go depth" has been sent.
GoSent == \E i \in 1..Len(log_lines) : StartsWith(log_lines[i], SentTag \o S_go_depth)

\* C1: once get_best_move has returned or raised after spawning the engine,
\* the process has terminated and has been reaped.
C1_NoProcessLeak == (GbmFinished /\ spawns > 0) => proc = "reaped"

C1_Witness == pc = "returned" /\ outcome = "RuntimeError" /\ kills = 1 /\ proc = "reaped"

\* C2: a session that waits for a terminator from an engine that is alive does
\* not wait forever: the wait ends (the deadline kills the engine and a timeout
\* error is raised).
C2_NeverWaitsForever ==
  (AwaitingTerminator /\ proc = "running") ~> ~(AwaitingTerminator /\ proc = "running")

\* C3: when the output stream is at end-of-stream while a terminator is still
\* awaited, the session leaves its read loop and raises the session error.
C3_CrashRaises ==
  (AwaitingTerminator /\ proc # "running" /\ outbuf = <<>>) ~> (outcome = "RuntimeError")

\* C4: on a successful return the Sent entries of the transcript are exactly
\* uci, isready, position fen <position>, go depth <depth>, quit, in that order.
C4_HandshakeOrder == outcome = "return" => SentCommands(CallerTranscript) = Handshake

C4_Witness == outcome = "return" /\ Len(SentCommands(log_lines)) = 5

\* C5: once a line starting with bestmove has been read after "go depth", the
\* extracted best move is the second whitespace-delimited token of that line,
\* also when more than one space separates the tokens.
C5_SecondWhitespaceToken ==
  (GoSent /\ StartsWith(line, S_bestmove) /\ Len(WsTokens(line)) >= 2)
    => best_move = Some(WsTokens(line)[2])

\* The lines the engine has written to its error stream, as Diagnostic entries.
DiagnosticsWritten == [k \in 1..nErr |-> DiagnosticOf(ErrLine(k))]

\* C6: every line the engine wrote to its error stream appears, tagged
\* Diagnostic, in the transcript the caller gets, on success and on failure.
C6_DiagnosticsCaptured ==
  outcome \in {"return", "RuntimeError"}
    => \A k \in 1..nErr :
         \E i \in 1..Len(CallerTranscript) : CallerTranscript[i] = DiagnosticsWritten[k]

\* C7: whenever get_best_move has returned or raised after spawning, the drain
\* task read_stderr has finished.
C7_DrainJoined == (GbmFinished /\ spawns > 0) => stderr_task = "done"

\* C8: every failure of get_best_move reaches the caller as the RuntimeError
\* built from the transcript.
C8_SingleErrorType ==
  (GbmFinished /\ outcome # "return")
    => (outcome = "RuntimeError" /\ StartsWith(err_text, SentTag \o S_uci))

\* C9: when the write of a command fails, the Sent entries of the error's
\* transcript are the commands written so far followed by the command whose
\* write failed, and the process has been killed and reaped.
C9_AttemptedCommandLogged ==
  (outcome = "RuntimeError" /\ exc = MsgConnectionLost)
    => /\ SentCommands(CallerTranscript) = SubSeq(Handshake, 1, Len(stdin_w) + 1)
       /\ \A i \in 1..Len(stdin_w) : stdin_w[i] = Encode(Handshake[i])
       /\ kills = 1
       /\ proc = "reaped"

C9_Witness ==
  /\ outcome = "RuntimeError"
  /\ exc = MsgConnectionLost
  /\ Len(stdin_w) = 2
  /\ SentCommands(CallerTranscript)[3] = S_position_fen \o request.position

\* The request names no engine of the table, or its path is not a file.
Unresolved == request.engine \notin DOMAIN ENGINE_BINARIES \/ ~isfile

\* C10: for an unresolved engine the handler answers 404 "Engine not found"
\* without calling get_best_move, so nothing is spawned; and the engine table
\* is never modified.
C10_ShortCircuit ==
  /\ ENGINE_BINARIES = EngineTable
  /\ Unresolved =>
       /\ pc \in {"bestmove", "responded"}
       /\ spawns = 0
       /\ proc = "none"
       /\ pc = "responded" =>
            response = Some([status |-> 404, detail |-> MsgEngineNotFound])

C10_Witness ==
  /\ pc = "responded"
  /\ request.engine \in DOMAIN ENGINE_BINARIES
  /\ ~isfile
  /\ response = Some([status |-> 404, detail |-> MsgEngineNotFound])

\* C11: a token of at least 4 characters is decomposed into origin (characters
\* 1-2), destination (characters 3-4) and promotion (the fifth character
\* whenever there is one, None only for exactly 4 characters); a shorter token
\* is rejected as invalid.
C11_MoveDecomposition ==
  (pc = "responded" /\ outcome = "return")
    => LET m == best_move[1]
           r == response[1]
       IN  IF Len(m) < 4
             THEN r.status = 500 /\ r.detail = MsgInvalidMove \o m
             ELSE /\ r.status = 200
                  /\ r.from = SubSeq(m, 1, 2)
                  /\ r.to = SubSeq(m, 3, 4)
                  /\ r.promotion = (IF Len(m) >= 5 THEN Some(m[5]) ELSE None)

\* C12: on a failure branch process.kill() is called exactly once; when the
\* process had already exited the call raises nothing out of get_best_move and
\* the wait that follows can complete, so the failure ends as the session error
\* with the process reaped.
C12_SingleKill ==
  /\ kills <= 1
  /\ pc \in {"except_wait", "except_raise"} => (kills = 1 /\ proc # "running")
  /\ pc = "except_raise" => proc = "reaped"
  /\ (GbmFinished /\ spawns > 0 /\ outcome # "return")
       => (outcome = "RuntimeError" /\ kills = 1 /\ proc = "reaped")

\* The kill was issued after the process had exited and had been reaped at line 95.
C12_Witness ==
  outcome = "RuntimeError" /\ exc = MsgNoMove /\ kills = 1 /\ Len(stdin_w) = 5

\* The index of the first entry e of the transcript, 0 when there is none.
PosOf(e) ==
  LET at == {i \in 1..Len(log_lines) : log_lines[i] = e}
  IN  IF at = {} THEN 0 ELSE CHOOSE i \in at : \A j \in at : i <= j

\* An entry satisfying Is lies strictly between the transcript indexes a and b.
ReceivedBetween(a, b, Is(_)) ==
  \E j \in (a + 1)..(b - 1) :
      StartsWith(log_lines[j], RecvTag)
      /\ Is(SubSeq(log_lines[j], Len(RecvTag) + 1, Len(log_lines[j])))

\* The positions of the main sequence, in order, and those of the failure branch.
MainOrder ==
  <<"bestmove", "spawn", "send_uci", "await_uciok", "send_isready", "await_readyok",
    "send_position", "send_go", "await_bestmove", "send_quit", "wait_exit",
    "join_stderr", "check_move", "returned", "responded">>

RankOf(p) == CHOOSE i \in 1..Len(MainOrder) : MainOrder[i] = p

InTry ==
  {"send_uci", "await_uciok", "send_isready", "await_readyok", "send_position",
   "send_go", "await_bestmove", "send_quit", "wait_exit", "join_stderr", "check_move"}

C13_Sent ==
  LET iUci == PosOf(SentTag \o S_uci)
      iIsready == PosOf(SentTag \o S_isready)
      iPosition == PosOf(SentTag \o S_position_fen \o request.position)
      iGo == PosOf(SentTag \o S_go_depth \o IntToStr(request.depth))
      iQuit == PosOf(SentTag \o S_quit)
  IN  /\ iIsready > 0 => (iUci > 0 /\ ReceivedBetween(iUci, iIsready, LAMBDA l : l = S_uciok))
      /\ iPosition > 0 => (iIsready > 0 /\ ReceivedBetween(iIsready, iPosition, LAMBDA l : l = S_readyok))
      /\ iGo > 0 => (iPosition > 0 /\ iPosition < iGo)
      /\ iQuit > 0 => (iGo > 0 /\ ReceivedBetween(iGo, iQuit, LAMBDA l : StartsWith(l, S_bestmove)))

C13_Step ==
  pc' # pc =>
    \/ pc \in InTry /\ pc' = "except_kill"
    \/ pc = "except_kill" /\ pc' = "except_wait"
    \/ pc = "except_wait" /\ pc' = "except_raise"
    \/ pc = "except_raise" /\ pc' = "returned"
    \/ pc = "bestmove" /\ pc' = "responded"
    \/ pc = "spawn" /\ pc' = "returned"
    \/ /\ pc \notin {"except_kill", "except_wait", "except_raise", "responded"}
       /\ pc' \notin {"except_kill", "except_wait", "except_raise"}
       /\ RankOf(pc') = RankOf(pc) + 1

\* C13: isready is sent only after a line equal to uciok was read; position and
\* go only after a line equal to readyok was read after isready; quit only after
\* a line starting with bestmove was read after go; and the session moves
\* through its positions in the fixed order, one at a time, never back.
C13_StrictSequencing == []C13_Sent /\ [][C13_Step]_vars

C13_Witness ==
  /\ pc = "wait_exit"
  /\ ReceivedBetween(PosOf(SentTag \o S_go_depth \o IntToStr(request.depth)),
                     PosOf(SentTag \o S_quit), LAMBDA l : StartsWith(l, S_bestmove))

\* A line starting with bestmove was read after "go depth" was sent, by the
\* transcript t.
BestmoveReadIn(t) ==
  \E i \in 1..Len(t) :
      /\ StartsWith(t[i], SentTag \o S_go_depth)
      /\ \E j \in (i + 1)..Len(t) : StartsWith(t[j], RecvTag \o S_bestmove)

\* C14: in every state the Sent entries of the transcript are a prefix of uci,
\* isready, position fen <position>, go depth <depth>, quit; and the transcript
\* of an error raised before a bestmove line was read holds no Sent quit.
C14_SentPrefix ==
  /\ LET sc == SentCommands(log_lines)
     IN  Len(sc) <= Len(Handshake) /\ sc = SubSeq(Handshake, 1, Len(sc))
  /\ (outcome = "RuntimeError" /\ ~BestmoveReadIn(CallerTranscript))
       => \A i \in 1..Len(CallerTranscript) : CallerTranscript[i] # SentTag \o S_quit

\* The write of "go depth" failed: four Sent entries, no bestmove line, no quit.
C14_Witness ==
  /\ outcome = "RuntimeError"
  /\ Len(SentCommands(CallerTranscript)) = 4
  /\ ~BestmoveReadIn(CallerTranscript)

\* The line l is the terminator awaited at position p of the main sequence.
Awaited(p, l) ==
  \/ p = "await_uciok" /\ l = S_uciok
  \/ p = "await_readyok" /\ l = S_readyok
  \/ p = "await_bestmove" /\ StartsWith(l, S_bestmove)

\* A line is taken from the output stream in this step.
OutputLineRead == outbuf # <<>> /\ outbuf' = Tail(outbuf)

\* The line taken from the output stream, decoded and trimmed.
LineRead == Strip(Decode(Head(outbuf)))

C15_NoiseStep ==
  (AwaitingTerminator /\ OutputLineRead /\ LineRead # <<>> /\ ~Awaited(pc, LineRead))
    => /\ log_lines' = Append(log_lines, RecvTag \o LineRead)
       /\ pc' = pc
       /\ UNCHANGED <<stdin_w, exc, kills, outcome, err_text, best_move, proc,
                      stderr_task>>

\* C15: a non-empty output line that is not the terminator awaited in the
\* current read loop is appended to the transcript as Received; the session
\* stays in the same loop, sends nothing and records no error.
C15_LenientNoise == [][C15_NoiseStep]_vars

\* readyok and a bestmove line were read as noise while uciok is awaited.
C15_Witness ==
  /\ pc = "await_uciok"
  /\ log_lines = <<SentTag \o S_uci, RecvTag \o S_readyok, RecvTag \o Decode(LineBestmove)>>
  /\ Len(stdin_w) = 1
  /\ kills = 0

C16_ReadStep ==
  OutputLineRead
    => IF LineRead # <<>>
         THEN log_lines' = Append(log_lines, RecvTag \o LineRead)
         ELSE log_lines' = log_lines

\* C16: a read of a line from the output stream appends exactly one Received
\* entry when the trimmed line is not empty, and nothing when it is empty.
C16_ReadLogging == [][C16_ReadStep]_vars

\* Two lines were read: readyok was logged, the empty line was not.
C16_Witness ==
  /\ pc = "await_uciok"
  /\ nOut = 2
  /\ outbuf = <<>>
  /\ nErr = 0
  /\ log_lines = <<SentTag \o S_uci, RecvTag \o S_readyok>>

\* The entries the drain task wrote: Diagnostic entries other than the one the
\* failure branch writes for the exception (line 109).
DrainEntries(log) ==
  SelectSeq(log, LAMBDA e : StartsWith(e, DiagTag) /\ ~StartsWith(e, DiagTag \o S_Exception))

\* The transcript has its Diagnostic entries in the order the engine wrote the
\* lines to its error stream, and its Sent entries in the order the commands
\* were written (the last one may be an attempt only).
C17_Order ==
  /\ DrainEntries(log_lines) = SubSeq(DiagnosticsWritten, 1, nErr - Len(errbuf))
  /\ LET sc == SentCommands(log_lines)
     IN  /\ Len(sc) - Len(stdin_w) \in {0, 1}
         /\ \A i \in 1..Len(stdin_w) : stdin_w[i] = Encode(sc[i])

\* A step leaves the transcript alone or appends one entry at its end; a read
\* takes the oldest unread line of its stream, and the entry is that line's.
C17_Step ==
  /\ \/ log_lines' = log_lines
     \/ /\ Len(log_lines') = Len(log_lines) + 1
        /\ SubSeq(log_lines', 1, Len(log_lines)) = log_lines
  /\ (outbuf # <<>> /\ outbuf' = Tail(outbuf) /\ log_lines' # log_lines)
       => log_lines' = Append(log_lines, RecvTag \o Strip(Decode(Head(outbuf))))
  /\ (errbuf # <<>> /\ errbuf' = Tail(errbuf))
       => log_lines' = Append(log_lines, DiagTag \o Strip(Decode(Head(errbuf))))
  /\ Len(outbuf') > Len(outbuf)
       => \E l \in OutLines : outbuf' = Append(outbuf, l)
  /\ Len(errbuf') > Len(errbuf)
       => errbuf' = Append(errbuf, ErrLine(nErr'))

\* C17: through every interleaving of the main sequence and the drain the
\* transcript only grows by whole entries appended at its end, and the
\* Received, Diagnostic and Sent entries each keep the order of their stream.
C17_AppendOnlyOrdered == []C17_Order /\ [][C17_Step]_vars

\* Both writers have appended, interleaved: two Diagnostic entries with a
\* Received and a Sent entry between them.
C17_Witness ==
  /\ Len(log_lines) >= 5
  /\ log_lines[1] = SentTag \o S_uci
  /\ log_lines[2] = DiagnosticOf(ErrLine(1))
  /\ log_lines[3] = RecvTag \o S_uciok
  /\ log_lines[4] = SentTag \o S_isready
  /\ log_lines[5] = DiagnosticOf(ErrLine(2))

\* The positions of the Received entries of the transcript that start with
\* bestmove and come after the Sent "go depth" entry.
BestmovePositions ==
  {j \in 1..Len(log_lines) :
      /\ StartsWith(log_lines[j], RecvTag \o S_bestmove)
      /\ \E i \in 1..(j - 1) : StartsWith(log_lines[i], SentTag \o S_go_depth)}

\* The first bestmove line read in the search step, without its tag.
FirstBestmoveLine ==
  LET j == CHOOSE m \in BestmovePositions : \A n \in BestmovePositions : m <= n
  IN  SubSeq(log_lines[j], Len(RecvTag) + 1, Len(log_lines[j]))

\* No move after bestmove: the line has no space, or nothing between its first
\* space and the next one.
Malformed(l) ==
  LET spaces == {i \in 1..Len(l) : l[i] = " "}
  IN  \/ spaces = {}
      \/ LET first == CHOOSE i \in spaces : \A k \in spaces : i <= k
         IN  first = Len(l) \/ l[first + 1] = " "

\* C18: when the first bestmove line read in the search step carries no move,
\* get_best_move never returns; once it has ended it has raised the session
\* error with the process killed and reaped. A return carries a non-empty
\* best-move token.
C18_MalformedBestmoveFails ==
  /\ (BestmovePositions # {} /\ Malformed(FirstBestmoveLine))
       => /\ outcome # "return"
          /\ GbmFinished => (outcome = "RuntimeError" /\ kills = 1 /\ proc = "reaped")
  /\ outcome = "return" => (best_move # None /\ Len(best_move[1]) > 0)

\* 'bestmove  e2e4' was read, quit was sent, and the call ended in the error.
C18_Witness ==
  /\ outcome = "RuntimeError"
  /\ BestmovePositions # {}
  /\ FirstBestmoveLine = Decode(LineBestmove2Sp)
  /\ Len(stdin_w) = 5

\* uciok, readyok and a bestmove line were read, in that order.
TerminatorsReadInOrder ==
  \E i, j, k \in 1..Len(log_lines) :
      /\ i < j /\ j < k
      /\ log_lines[i] = RecvTag \o S_uciok
      /\ log_lines[j] = RecvTag \o S_readyok
      /\ StartsWith(log_lines[k], RecvTag \o S_bestmove)

\* C19: when get_best_move has ended after a successful spawn, the kill was
\* issued exactly if the outcome is the error; a return means no kill, an
\* engine that exited after quit, and uciok, readyok and a bestmove line read
\* in that order.
C19_KillIffFailure ==
  (GbmFinished /\ spawns > 0)
    => /\ outcome \in {"return", "RuntimeError"}
       /\ kills = (IF outcome = "RuntimeError" THEN 1 ELSE 0)
       /\ outcome = "return"
            => /\ proc = "reaped"
               /\ stdin_w[Len(stdin_w)] = Encode(S_quit)
               /\ TerminatorsReadInOrder

C19_Witness == outcome = "return" /\ kills = 0 /\ proc = "reaped" /\ TerminatorsReadInOrder

\* C20: once get_best_move has returned or raised, no step changes the
\* transcript the caller holds.
C20_TranscriptFinal == [][GbmFinished => CallerTranscript' = CallerTranscript]_vars

\* The drain has appended to the session's list after the error was raised.
C20_Witness ==
  /\ outcome = "RuntimeError"
  /\ Len(log_lines) > Len(LinesOf(err_text))

====
